---- MODULE Spec2Model ----
(***************************************************************************)
(* Model of flaecs: World (entity allocator, type registry, facade) and    *)
(* ComponentStorage<T> (sparse set), from src/src/world.rs, with the       *)
(* bundle glue of src/src/component.rs.                                    *)
(*                                                                         *)
(* Entity index i is stored at position i+1 of a sequence (Rust vectors    *)
(* are 0-based, TLA+ sequences 1-based).  A Rust panic (index out of       *)
(* bounds, failed expect) is the outcome "Panic": the state is left as it  *)
(* was when the panic was raised and the program stops (aborted).          *)
(***************************************************************************)
EXTENDS Integers, Sequences, FiniteSets, TLC

\* ---------------------------------------------------------------- bounds
MaxSpawn  == 2      \* calls of World::spawn in one run
MaxDense  == 2      \* entries of one storage's dense array
MaxBundle == 2      \* components of one bundle (the source has 1..25)
MaxSpawnAlloc == 4     \* calls of World::spawn in one run of SpecAlloc
MaxSpawnOne == 2       \* calls of World::spawn in one run of SpecOne
MaxDenseOne == 2       \* entries of the dense array in SpecOne
MaxSpawnStorage == 3   \* calls of World::spawn in one run of SpecStorage
MaxDenseStorage == 4   \* entries of the dense array in SpecStorage
MaxSpawnGrow == 65     \* calls of World::spawn in one run of SpecGrow

\* ------------------------------------------------------ program constants
TO_ADD  == 64
\* std::u32::MAX, the sentinel of the sparse array.  TLC's integers are 32-bit
\* signed, so the sentinel is the largest of them; it is only ever compared
\* with the length of a dense array, which it exceeds as 0xFFFFFFFF does.
U32_MAX == 2147483647

\* Two component types and two values of a component (the same two for
\* either type).
Types == {"Position", "Velocity"}
Vals  == {"v1", "v2"}
NoType == "none"
NoVal  == "none"

\* A bundle is the ordered tuple of its components, each <<type, value>>.
Bundles == UNION {[1..n -> Types \X Vals] : n \in 1..MaxBundle}

VARIABLES
    versions,        \* World.versions: Vec<u32>
    alive,           \* World.alive: BitVec
    free,            \* World.free: Vec<u32>
    components,      \* World.components: TypeId -> ComponentStorage
    entity_counter,  \* World.entity_counter
    num_entities,    \* World.num_entities
    aborted,         \* a panic has unwound out of a public entry point
    issued,          \* handles returned by spawn so far
    despawned,       \* handles for which despawn returned Ok
    holds,           \* <<e, t, v>>: add(e, v: t) returned Ok and no later
                     \* remove(e: t) returned Ok, nor clear
    cleared,         \* handles issued before the last clear()
    unreleased,      \* component values moved into the World whose
                     \* destructor has not run
    last             \* the last call: operation, arguments, result

vars == <<versions, alive, free, components, entity_counter, num_entities,
          aborted, issued, despawned, holds, cleared, unreleased, last>>

Repeat(x, n) == [i \in 1..n |-> x]

Entity(i, v) == [index |-> i, version |-> v]

NoEntity == Entity(0, 0)

\* A type with no entry in World.components.
NoStorage == [present |-> FALSE, sparse |-> <<>>, dense |-> <<>>, data |-> <<>>]

\* The World as one value, for the operators below.
World == [versions |-> versions, alive |-> alive, free |-> free,
          components |-> components, entity_counter |-> entity_counter,
          num_entities |-> num_entities]

\* ------------------------------------------------------- ComponentStorage

ComponentStorage_new(w) ==
    [present |-> TRUE, sparse |-> Repeat(U32_MAX, w.num_entities),
     dense |-> <<>>, data |-> <<>>]

\* None, Some(dense_index), or a panic on dense[dense_index].
get_ptr(st, index) ==
    IF index >= Len(st.sparse)
    THEN [k |-> "None", d |-> 0]
    ELSE LET dense_index == st.sparse[index + 1] IN
         IF dense_index >= Len(st.dense)
         THEN [k |-> "Panic", d |-> 0]
         ELSE IF st.dense[dense_index + 1] # index
              THEN [k |-> "None", d |-> 0]
              ELSE IF dense_index >= Len(st.data)
                   THEN [k |-> "Panic", d |-> 0]
                   ELSE [k |-> "Some", d |-> dense_index]

extend_if_necessary(st, index) ==
    IF index >= Len(st.sparse)
    THEN [st EXCEPT !.sparse = st.sparse \o Repeat(U32_MAX, index - Len(st.sparse) + 1)]
    ELSE st

\* storage_insert with the sparse entry written only where it was the sentinel.
storage_insert_keeps_sparse(st, index, component) ==
    LET st1 == extend_if_necessary(st, index)
        dense_index == Len(st1.dense)
    IN  [st1 EXCEPT !.dense = Append(st1.dense, index),
                    !.data = Append(st1.data, component),
                    !.sparse[index + 1] =
                        IF st1.sparse[index + 1] = U32_MAX
                        THEN dense_index ELSE st1.sparse[index + 1]]

storage_insert(st, index, component) ==
    LET st1 == extend_if_necessary(st, index)
        dense_index == Len(st1.dense)
    IN  [st1 EXCEPT !.dense = Append(st1.dense, index),
                    !.data = Append(st1.data, component),
                    !.sparse[index + 1] = dense_index]

\* Vec::swap_remove(i), for i < len: the last element takes place i.
swap_remove(s, i) ==
    [k \in 1..(Len(s) - 1) |-> IF k = i + 1 THEN s[Len(s)] ELSE s[k]]

\* res: "true", "false" or "Panic"; st: the storage when the call ends.
storage_remove(st, index) ==
    LET p == get_ptr(st, index) IN
    IF p.k = "Panic" THEN [st |-> st, res |-> "Panic"]
    ELSE IF p.k = "None" THEN [st |-> st, res |-> "false"]
    ELSE
      LET dense_index == st.sparse[index + 1]
          st1 == IF Len(st.dense) = 1
                 THEN [st EXCEPT !.dense = <<>>, !.data = <<>>]
                 ELSE [st EXCEPT !.dense = swap_remove(st.dense, dense_index),
                                 !.data = swap_remove(st.data, dense_index)]
      IN  IF dense_index >= Len(st1.dense)
          THEN [st |-> st1, res |-> "Panic"]
          ELSE LET moved == st1.dense[dense_index + 1] IN
               IF moved >= Len(st1.sparse)
               THEN [st |-> st1, res |-> "Panic"]
               ELSE [st |-> [st1 EXCEPT !.sparse[moved + 1] = dense_index],
                     res |-> "true"]

\* ------------------------------------------------------------------ World

\* "True", "False", or "Panic" when the index is outside the bit vector.
World_new ==
    [versions |-> <<>>, alive |-> <<>>, free |-> <<>>,
     components |-> [t \in Types |-> NoStorage],
     entity_counter |-> 0, num_entities |-> 0]

is_alive(w, entity) ==
    IF entity.index >= Len(w.alive) THEN "Panic"
    ELSE IF w.alive[entity.index + 1] THEN "True" ELSE "False"

check_valid_entity(w, entity) ==
    LET a == is_alive(w, entity) IN
    IF a = "Panic" THEN "Panic"
    ELSE IF a = "False" THEN "VersionMismatch"
    ELSE IF entity.index >= Len(w.versions) THEN "Panic"
    ELSE IF w.versions[entity.index + 1] = entity.version THEN "Ok"
    ELSE "VersionMismatch"

\* get and get_mut resolve alike; val is the component the reference is to.
get(w, entity, t) ==
    LET c == check_valid_entity(w, entity) IN
    IF c # "Ok" THEN [res |-> c, val |-> NoVal]
    ELSE IF ~w.components[t].present THEN [res |-> "ComponentNotFound", val |-> NoVal]
    ELSE LET p == get_ptr(w.components[t], entity.index) IN
         IF p.k = "Panic" THEN [res |-> "Panic", val |-> NoVal]
         ELSE IF p.k = "None" THEN [res |-> "ComponentNotFound", val |-> NoVal]
         ELSE [res |-> "Ok", val |-> w.components[t].data[p.d + 1]]

create_new_storage(w, t) ==
    [w EXCEPT !.components[t] = ComponentStorage_new(w)]

add(w, entity, t, component) ==
    LET c == check_valid_entity(w, entity) IN
    IF c # "Ok" THEN [w |-> w, res |-> c]
    ELSE LET w1 == IF w.components[t].present THEN w ELSE create_new_storage(w, t)
         IN  [w |-> [w1 EXCEPT !.components[t] =
                         storage_insert(w1.components[t], entity.index, component)],
              res |-> "Ok"]

remove(w, entity, t) ==
    LET c == check_valid_entity(w, entity) IN
    IF c # "Ok" THEN [w |-> w, res |-> c]
    ELSE IF ~w.components[t].present THEN [w |-> w, res |-> "ComponentNotFound"]
    ELSE LET r == storage_remove(w.components[t], entity.index) IN
         [w |-> [w EXCEPT !.components[t] = r.st],
          res |-> IF r.res = "true" THEN "Ok"
                  ELSE IF r.res = "false" THEN "ComponentNotFound"
                  ELSE "Panic"]

\* ComponentBundle::add_to: one add per element, in order, stopping at the
\* first error.
RECURSIVE add_to(_, _, _)
add_to(w, entity, bundle) ==
    IF bundle = <<>> THEN [w |-> w, res |-> "Ok"]
    ELSE LET r == add(w, entity, Head(bundle)[1], Head(bundle)[2]) IN
         IF r.res # "Ok" THEN r
         ELSE add_to(r.w, entity, Tail(bundle))

alloc_more_entities(w) ==
    [w EXCEPT !.alive = w.alive \o Repeat(FALSE, TO_ADD),
              !.versions = w.versions \o Repeat(0, TO_ADD)]

spawn(w, bundle) ==
    LET fresh == w.free = <<>>
        w1 == IF fresh /\ w.entity_counter >= Len(w.versions)
              THEN alloc_more_entities(w) ELSE w
        index == IF fresh THEN w1.entity_counter ELSE Head(w1.free)
        w2 == IF fresh THEN [w1 EXCEPT !.entity_counter = w1.entity_counter + 1]
              ELSE [w1 EXCEPT !.free = Tail(w1.free)]
    IN  IF index >= Len(w2.versions)
        THEN [w |-> w2, res |-> "Panic", entity |-> NoEntity]
        ELSE
          LET w3 == [w2 EXCEPT !.versions[index + 1] = w2.versions[index + 1] + 1]
          IN  IF index >= Len(w3.alive)
              THEN [w |-> w3, res |-> "Panic", entity |-> NoEntity]
              ELSE
                LET w4 == [w3 EXCEPT !.alive[index + 1] = TRUE]
                    entity == Entity(index, w4.versions[index + 1])
                    r == add_to(w4, entity, bundle)
                IN  IF r.res # "Ok"
                    THEN [w |-> r.w, res |-> "Panic", entity |-> NoEntity]
                    ELSE [w |-> [r.w EXCEPT !.num_entities = r.w.num_entities + 1],
                          res |-> "Ok", entity |-> entity]

\* despawn without the decrement of num_entities.
despawn_keeps_count(w, entity) ==
    LET c == check_valid_entity(w, entity) IN
    IF c # "Ok" THEN [w |-> w, res |-> c]
    ELSE [w |-> [w EXCEPT !.alive[entity.index + 1] = FALSE], res |-> "Ok"]

\* despawn that also bumps the version of the slot.
despawn_bumps_version(w, entity) ==
    LET c == check_valid_entity(w, entity) IN
    IF c # "Ok" THEN [w |-> w, res |-> c]
    ELSE [w |-> [w EXCEPT !.alive[entity.index + 1] = FALSE,
                          !.versions[entity.index + 1] = w.versions[entity.index + 1] + 1,
                          !.num_entities = w.num_entities - 1],
          res |-> "Ok"]

\* num_entities is kept a mathematical integer: a value below 0 is the
\* underflow of the usize.
despawn(w, entity) ==
    LET c == check_valid_entity(w, entity) IN
    IF c # "Ok" THEN [w |-> w, res |-> c]
    ELSE [w |-> [w EXCEPT !.alive[entity.index + 1] = FALSE,
                          !.num_entities = w.num_entities - 1],
          res |-> "Ok"]

size(w) == w.num_entities

\* clear that also rewinds the high-water mark.
clear_resets_counter(w) ==
    [w EXCEPT !.versions = <<>>, !.alive = <<>>,
              !.components = [t \in Types |-> NoStorage],
              !.entity_counter = 0,
              !.num_entities = 0]

clear(w) ==
    [w EXCEPT !.versions = <<>>, !.alive = <<>>,
              !.components = [t \in Types |-> NoStorage],
              !.num_entities = 0]

\* ------------------------------------------------------------ the machine

Call(op, e, t, v, b, res, val) ==
    [op |-> op, e |-> e, t |-> t, v |-> v, b |-> b, res |-> res, val |-> val]

SetWorld(w) ==
    /\ versions' = w.versions
    /\ alive' = w.alive
    /\ free' = w.free
    /\ components' = w.components
    /\ entity_counter' = w.entity_counter
    /\ num_entities' = w.num_entities

\* holds after add(e, v: t) returned Ok.
HoldsAdd(h, e, t, v) == {x \in h : ~(x[1] = e /\ x[2] = t)} \cup {<<e, t, v>>}

RECURSIVE HoldsBundle(_, _, _)
HoldsBundle(h, e, bundle) ==
    IF bundle = <<>> THEN h
    ELSE HoldsBundle(HoldsAdd(h, e, Head(bundle)[1], Head(bundle)[2]), e, Tail(bundle))

\* Component values the storages of w own.
RECURSIVE StoredIn(_, _)
StoredIn(w, ts) ==
    IF ts = {} THEN 0
    ELSE LET t == CHOOSE x \in ts : TRUE IN
         Len(w.components[t].data) + StoredIn(w, ts \ {t})

StoredValues(w) == StoredIn(w, Types)

DenseFits(w, maxDense) == \A t \in Types : Len(w.components[t].dense) <= maxDense

Init ==
    /\ versions = <<>>
    /\ alive = <<>>
    /\ free = <<>>
    /\ components = [t \in Types |-> NoStorage]
    /\ entity_counter = 0
    /\ num_entities = 0
    /\ aborted = FALSE
    /\ issued = {}
    /\ despawned = {}
    /\ holds = {}
    /\ cleared = {}
    /\ unreleased = 0
    /\ last = Call("new", NoEntity, NoType, NoVal, <<>>, "Ok", NoVal)

\* spawn(bundle), while fewer than maxSpawn entities were spawned and no
\* dense array outgrows maxDense.
SpawnWithin(bundle, maxSpawn, maxDense) ==
    LET r == spawn(World, bundle) IN
    /\ ~aborted
    /\ Cardinality(issued) < maxSpawn
    /\ DenseFits(r.w, maxDense)
    /\ SetWorld(r.w)
    /\ aborted' = (r.res = "Panic")
    /\ issued' = IF r.res = "Ok" THEN issued \cup {r.entity} ELSE issued
    /\ holds' = IF r.res = "Ok" THEN HoldsBundle(holds, r.entity, bundle) ELSE holds
    /\ unreleased' = unreleased + StoredValues(r.w) - StoredValues(World)
    /\ last' = Call("spawn", r.entity, NoType, NoVal, bundle, r.res, NoVal)
    /\ UNCHANGED <<despawned, cleared>>

Spawn(bundle) == SpawnWithin(bundle, MaxSpawn, MaxDense)

Despawn(e) ==
    LET r == despawn(World, e) IN
    /\ ~aborted
    /\ SetWorld(r.w)
    /\ aborted' = (r.res = "Panic")
    /\ despawned' = IF r.res = "Ok" THEN despawned \cup {e} ELSE despawned
    /\ last' = Call("despawn", e, NoType, NoVal, <<>>, r.res, NoVal)
    /\ UNCHANGED <<issued, holds, cleared, unreleased>>

IsAlive(e) ==
    LET a == is_alive(World, e) IN
    /\ ~aborted
    /\ aborted' = (a = "Panic")
    /\ last' = Call("is_alive", e, NoType, NoVal, <<>>, a, NoVal)
    /\ UNCHANGED <<versions, alive, free, components, entity_counter,
                   num_entities, issued, despawned, holds, cleared, unreleased>>

Get(e, t) ==
    LET r == get(World, e, t) IN
    /\ ~aborted
    /\ aborted' = (r.res = "Panic")
    /\ last' = Call("get", e, t, NoVal, <<>>, r.res, r.val)
    /\ UNCHANGED <<versions, alive, free, components, entity_counter,
                   num_entities, issued, despawned, holds, cleared, unreleased>>

\* get_mut, and the caller storing v through the reference it returns (the
\* value it replaces is dropped).
GetMut(e, t, v) ==
    LET r == get(World, e, t)
        d == get_ptr(components[t], e.index).d
    IN
    /\ ~aborted
    /\ aborted' = (r.res = "Panic")
    /\ components' = IF r.res = "Ok"
                     THEN [components EXCEPT ![t].data[d + 1] = v]
                     ELSE components
    /\ holds' = IF r.res = "Ok" THEN HoldsAdd(holds, e, t, v) ELSE holds
    /\ last' = Call("get_mut", e, t, v, <<>>, r.res, r.val)
    /\ UNCHANGED <<versions, alive, free, entity_counter, num_entities,
                   issued, despawned, cleared, unreleased>>

AddWithin(e, t, v, maxDense) ==
    LET r == add(World, e, t, v) IN
    /\ ~aborted
    /\ DenseFits(r.w, maxDense)
    /\ SetWorld(r.w)
    /\ aborted' = (r.res = "Panic")
    /\ holds' = IF r.res = "Ok" THEN HoldsAdd(holds, e, t, v) ELSE holds
    /\ unreleased' = unreleased + StoredValues(r.w) - StoredValues(World)
    /\ last' = Call("add", e, t, v, <<>>, r.res, NoVal)
    /\ UNCHANGED <<issued, despawned, cleared>>

Add(e, t, v) == AddWithin(e, t, v, MaxDense)

Remove(e, t) ==
    LET r == remove(World, e, t) IN
    /\ ~aborted
    /\ SetWorld(r.w)
    /\ aborted' = (r.res = "Panic")
    /\ holds' = IF r.res = "Ok"
                THEN {x \in holds : ~(x[1] = e /\ x[2] = t)} ELSE holds
    /\ unreleased' = unreleased + StoredValues(r.w) - StoredValues(World)
    /\ last' = Call("remove", e, t, NoVal, <<>>, r.res, NoVal)
    /\ UNCHANGED <<issued, despawned, cleared>>

Size ==
    /\ ~aborted
    /\ last' = Call("size", NoEntity, NoType, NoVal, <<>>, "Ok", size(World))
    /\ UNCHANGED <<versions, alive, free, components, entity_counter,
                   num_entities, aborted, issued, despawned, holds, cleared,
                   unreleased>>

\* clear() empties the map of raw pointers to the storages: no storage and no
\* component value is dropped, so unreleased keeps its count.
Clear ==
    /\ ~aborted
    /\ SetWorld(clear(World))
    /\ holds' = {}
    /\ cleared' = issued
    /\ last' = Call("clear", NoEntity, NoType, NoVal, <<>>, "Ok", NoVal)
    /\ UNCHANGED <<aborted, issued, despawned, unreleased>>

Next ==
    \/ \E b \in Bundles : Spawn(b)
    \/ \E e \in issued : Despawn(e)
    \/ \E e \in issued : IsAlive(e)
    \/ \E e \in issued, t \in Types : Get(e, t)
    \/ \E e \in issued, t \in Types, v \in Vals : GetMut(e, t, v)
    \/ \E e \in issued, t \in Types, v \in Vals : Add(e, t, v)
    \/ \E e \in issued, t \in Types : Remove(e, t)
    \/ Size
    \/ Clear

Spec == Init /\ [][Next]_vars

\* One storage under more entities: spawn, add, get and remove on the single
\* component type Position.
PositionBundles == UNION {[1..n -> {"Position"} \X Vals] : n \in 1..MaxBundle}

NextStorage ==
    \/ \E b \in PositionBundles : SpawnWithin(b, MaxSpawnStorage, MaxDenseStorage)
    \/ \E e \in issued, v \in Vals : AddWithin(e, "Position", v, MaxDenseStorage)
    \/ \E e \in issued : Remove(e, "Position")
    \/ \E e \in issued : Get(e, "Position")

SpecStorage == Init /\ [][NextStorage]_vars

\* The allocator under more entities: any sequence of spawn, despawn,
\* is_alive, size and clear, each entity spawned with a bundle of one
\* component.
UnitBundles == {<<c>> : c \in Types \X Vals}

NextAlloc ==
    \/ \E b \in UnitBundles : SpawnWithin(b, MaxSpawnAlloc, MaxSpawnAlloc)
    \/ \E e \in issued : Despawn(e)
    \/ \E e \in issued : IsAlive(e)
    \/ Size
    \/ Clear

SpecAlloc == Init /\ [][NextAlloc]_vars

\* Every operation, on the single component type Position.
NextOne ==
    \/ \E b \in PositionBundles : SpawnWithin(b, MaxSpawnOne, MaxDenseOne)
    \/ \E e \in issued : Despawn(e)
    \/ \E e \in issued : IsAlive(e)
    \/ \E e \in issued : Get(e, "Position")
    \/ \E e \in issued, v \in Vals : GetMut(e, "Position", v)
    \/ \E e \in issued, v \in Vals : AddWithin(e, "Position", v, MaxDenseOne)
    \/ \E e \in issued : Remove(e, "Position")
    \/ Size
    \/ Clear

SpecOne == Init /\ [][NextOne]_vars

\* The allocator past its first chunk of TO_ADD slots: spawn of one bundle
\* of two components, and clear.
GrowBundle == <<<<"Position", "v1">>, <<"Velocity", "v2">>>>

NextGrow ==
    \/ SpawnWithin(GrowBundle, MaxSpawnGrow, MaxSpawnGrow)
    \/ Clear

SpecGrow == Init /\ [][NextGrow]_vars

\* ------------------------------------------------------------ vocabulary

\* The handle designates a live entity: its slot is alive and the slot's
\* version is the handle's.
Valid(e) ==
    /\ e.index < Len(alive) /\ e.index < Len(versions)
    /\ alive[e.index + 1]
    /\ versions[e.index + 1] = e.version

Holds(e, t) == \E x \in holds : x[1] = e /\ x[2] = t

\* Number of dense slots of t's storage that name entity index i.
DenseCount(w, t, i) ==
    Cardinality({d \in 1..Len(w.components[t].dense) : w.components[t].dense[d] = i})

AliveCount == Cardinality({i \in 1..Len(alive) : alive[i]})

OkVal(v) == [res |-> "Ok", val |-> v]

TypesOf(bundle) == {bundle[i][1] : i \in DOMAIN bundle}

\* The component types of the bundle are pairwise distinct.
DistinctTypes(bundle) ==
    \A i, j \in DOMAIN bundle : i # j => bundle[i][1] # bundle[j][1]

\* ------------------------------------------------------------------ C1
\* C1: once despawn(e) has returned Ok, in every later state is_alive(e) is
\* false and get, get_mut, add and remove on e return Err(VersionMismatch),
\* for every component type.
C1_DespawnedStaysInvalid ==
    \A e \in despawned :
        /\ is_alive(World, e) = "False"
        /\ \A t \in Types :
              /\ get(World, e, t).res = "VersionMismatch"
              /\ remove(World, e, t).res = "VersionMismatch"
              /\ \A v \in Vals : add(World, e, t, v).res = "VersionMismatch"

\* ------------------------------------------------------------------ C3
\* C3: a successful despawn(A) pushes A.index onto the free queue, and the
\* next spawn, with no other despawned index pending, returns B with
\* B.index = A.index and B.version > A.version.
C3_DespawnFeedsSpawn ==
    [][ /\ (last'.op = "despawn" /\ last'.res = "Ok" /\ last' # last)
            => (free' # <<>> /\ free'[Len(free')] = last'.e.index)
        /\ (/\ last.op = "despawn" /\ last.res = "Ok"
            /\ \A d \in despawned \ {last.e} :
                   \E n \in issued : n.index = d.index /\ n.version > d.version
            /\ last'.op = "spawn" /\ last'.res = "Ok")
            => (last'.e.index = last.e.index /\ last'.e.version > last.e.version)
      ]_vars

\* ------------------------------------------------------------------ C4
\* C4: for every valid entity e, type T and value v, in any reachable state,
\* add::<T>(e, v) returns Ok and a get::<T>(e) that follows it at once
\* returns Ok of v.
C4_AddThenGet ==
    ~aborted =>
        \A e \in issued, t \in Types, v \in Vals :
            Valid(e) =>
                LET r == add(World, e, t, v) IN
                /\ r.res = "Ok"
                /\ get(r.w, e, t) = OkVal(v)

\* An add has just returned Ok for an entity that held a different value of
\* the type before the call, and get now returns the added value.
C4_Witness ==
    /\ last.op = "add" /\ last.res = "Ok"
    /\ DenseCount(World, last.t, last.e.index) = 2
    /\ components[last.t].data[1] # last.v
    /\ get(World, last.e, last.t) = OkVal(last.v)

\* ------------------------------------------------------------------ C5
\* C5: for every valid entity e that holds a T, wherever e sits in the dense
\* array, remove::<T>(e) returns Ok(()) and a get::<T>(e) that follows it at
\* once returns Err(ComponentNotFound).
C5_RemoveThenGet ==
    \A e \in issued, t \in Types :
        (~aborted /\ Valid(e) /\ Holds(e, t)) =>
            LET r == remove(World, e, t) IN
            /\ r.res = "Ok"
            /\ get(r.w, e, t).res = "ComponentNotFound"

\* ------------------------------------------------------------------ C6
\* C6: add::<T>(e, v1) followed by add::<T>(e, v2) leaves exactly one entry
\* for e in T's storage: the second call does not lengthen dense or data, no
\* second dense slot names e, and the entry's value is v2.
C6_Upsert ==
    [][ (/\ last.op = "add" /\ last.res = "Ok"
         /\ last'.op = "add" /\ last'.res = "Ok"
         /\ last'.e = last.e /\ last'.t = last.t)
        => (/\ Len(components'[last.t].dense) = Len(components[last.t].dense)
            /\ Len(components'[last.t].data) = Len(components[last.t].data)
            /\ DenseCount(World', last.t, last.e.index) = 1
            /\ get(World', last.e, last.t) = OkVal(last'.v))
      ]_vars

\* ------------------------------------------------------------------ C7
\* C7: a remove::<T>(b) that returns, on a valid entity b holding T, changes
\* no other entity's component: every other valid entity x holding T gets
\* from get::<T>(x) the value it got before the call.
C7_RemoveFrame ==
    [][ \A b \in issued, t \in Types :
          (/\ Valid(b) /\ Holds(b, t)
           /\ last'.op = "remove" /\ last'.e = b /\ last'.t = t
           /\ last'.res = "Ok")
          => \A x \in issued \ {b} :
                 (Valid(x) /\ Holds(x, t))
                 => get(World', x, t) = get(World, x, t)
      ]_vars

\* ------------------------------------------------------------------ C8
\* C8: for every valid entity e and type T such that e holds no T, get,
\* get_mut and remove return Err(ComponentNotFound) as an ordinary value and
\* leave the World unchanged.
C8_AbsentIsNotFound ==
    \A e \in issued, t \in Types :
        (~aborted /\ Valid(e) /\ ~Holds(e, t)) =>
            /\ get(World, e, t).res = "ComponentNotFound"
            /\ remove(World, e, t).res = "ComponentNotFound"
            /\ remove(World, e, t).w = World

\* ------------------------------------------------------------------ C9
\* C9: add::<T>(e, v) returns Ok(()) for every valid e and every T, also when
\* no entity ever received a T; it never returns ComponentNotFound; for an e
\* that is not valid it returns Err(VersionMismatch) and leaves the World
\* unchanged.
C9_AddResult ==
    ~aborted =>
        \A e \in issued, t \in Types, v \in Vals :
            LET r == add(World, e, t, v) IN
            IF Valid(e) THEN r.res = "Ok"
            ELSE r.res = "VersionMismatch" /\ r.w = World

\* ----------------------------------------------------------------- C10
\* C10: in every reachable state size() is the number of set bits of the
\* liveness bitset; the count never underflows and is 0 after clear.
C10_SizeIsAliveCount ==
    /\ size(World) = AliveCount
    /\ size(World) >= 0
    /\ (last.op = "clear" => size(World) = 0)

\* A despawn has just failed on a handle despawned before, while another
\* entity is alive.
C10_Witness ==
    /\ last.op = "despawn" /\ last.res = "VersionMismatch"
    /\ last.e \in despawned
    /\ size(World) = 1

\* ------------------------------------------------------------------ C11
\* C11: clear() puts the versions, the liveness bitset, the free queue, the
\* high-water-mark counter, the entity count and the type registry back in
\* the state of World::new(), however many entities were spawned before.
C11_ClearResets ==
    last.op = "clear" => World = World_new

\* ------------------------------------------------------------------ C12
\* C12: in every state after a clear(), on every handle issued before that
\* clear is_alive is false and despawn, get, get_mut, add and remove return
\* Err(VersionMismatch); none of them aborts.
C12_ClearedStaysInvalid ==
    \A e \in cleared :
        /\ is_alive(World, e) = "False"
        /\ despawn(World, e).res = "VersionMismatch"
        /\ \A t \in Types :
              /\ get(World, e, t).res = "VersionMismatch"
              /\ remove(World, e, t).res = "VersionMismatch"
              /\ \A v \in Vals : add(World, e, t, v).res = "VersionMismatch"

\* ------------------------------------------------------------------ C13
\* C13: clear() runs the destructor of every component value still stored:
\* right after it no value that was moved into the World is unreleased.
C13_ClearReleases ==
    last.op = "clear" => unreleased = 0

\* ------------------------------------------------------------------ C14
\* C14: despawn(e) returns Ok only for a valid e; for any other handle it
\* returns Err(VersionMismatch) and leaves the World as it is, and a handle
\* already despawned is answered Err(VersionMismatch) with no second
\* decrement of the entity count.
C14_DespawnResult ==
    \A e \in issued :
        LET r == despawn(World, e) IN
        /\ r.res = "Ok" => Valid(e)
        /\ ~Valid(e) => (r.res = "VersionMismatch" /\ r.w = World)
        /\ e \in despawned =>
              (r.res = "VersionMismatch" /\ size(r.w) = size(World))

\* ------------------------------------------------------------------ C15
\* C15: in any reachable state spawn(bundle), for a bundle of pairwise
\* distinct component types, returns a valid handle e, raises size() by one
\* and stores the bundle's components, so that get::<T>(e) returns the
\* bundle's value for every T of the bundle.
C15_SpawnBundle ==
    ~aborted =>
        \A b \in Bundles :
            DistinctTypes(b) =>
                LET r == spawn(World, b) IN
                /\ r.res = "Ok"
                /\ check_valid_entity(r.w, r.entity) = "Ok"
                /\ size(r.w) = size(World) + 1
                /\ \A i \in DOMAIN b :
                       get(r.w, r.entity, b[i][1]) = OkVal(b[i][2])

\* ------------------------------------------------------------------ C16
\* C16: an entity B just spawned holds no component of a type T outside
\* its bundle: get::<T>(B) returns Err(ComponentNotFound) right after the
\* spawn, and still after the next call, whatever it stores for other
\* entities, unless that call is add::<T>(B, _) or ends B's validity.
C16_NotReceived ==
    [][ (last.op = "spawn" /\ last.res = "Ok") =>
          \A t \in Types \ TypesOf(last.b) :
              /\ get(World, last.e, t).res = "ComponentNotFound"
              /\ (/\ ~(last'.op = "add" /\ last'.e = last.e /\ last'.t = t)
                  /\ check_valid_entity(World', last.e) = "Ok")
                 => get(World', last.e, t).res = "ComponentNotFound"
      ]_vars

\* ------------------------------------------------------------------ C17
\* C17: the sparse-set invariant of every component storage, between calls:
\* dense and data have one length, which is the number of entities holding
\* the type; every dense slot d names an entity whose sparse entry is d and
\* whose value is data[d]; every sparse entry other than the sentinel is an
\* index into dense.
C17_SparseSet ==
    ~aborted =>
        \A t \in Types :
            LET st == components[t] IN
            /\ Len(st.dense) = Len(st.data)
            /\ Len(st.dense) = Cardinality({e \in issued : Holds(e, t)})
            /\ \A d \in 1..Len(st.dense) :
                  /\ st.dense[d] < Len(st.sparse)
                  /\ st.sparse[st.dense[d] + 1] = d - 1
                  /\ \E x \in holds :
                         x[1].index = st.dense[d] /\ x[2] = t /\ x[3] = st.data[d]
            /\ \A i \in 1..Len(st.sparse) :
                  st.sparse[i] # U32_MAX => st.sparse[i] < Len(st.dense)

\* ------------------------------------------------------------------ C18
\* C18: the allocator invariant, between calls: versions and the liveness
\* bitset have one length, a multiple of the 64-slot chunk; the high-water
\* mark does not exceed it; bit i is set iff a handle of index i was issued
\* since the last clear and not despawned; and so spawn does not index out
\* of bounds.
C18_Allocator ==
    ~aborted =>
        /\ Len(versions) = Len(alive)
        /\ Len(versions) % TO_ADD = 0
        /\ entity_counter <= Len(versions)
        /\ \A i \in 1..Len(alive) :
              alive[i] <=> \E e \in issued \ (despawned \cup cleared) :
                               e.index = i - 1
        /\ \A b \in UnitBundles : spawn(World, b).res # "Panic"

\* ------------------------------------------------------------------ C19
\* C19: over the lifetime of a World, across despawn and clear, no spawn
\* returns a handle (index and version) that an earlier spawn returned.
C19_HandlesUnique ==
    \A b \in UnitBundles :
        LET r == spawn(World, b) IN
        r.res = "Ok" => r.entity \notin issued

\* A spawn has just returned its handle after a clear and a despawn, with
\* at least three handles issued in all.
C19_Witness ==
    /\ last.op = "spawn" /\ last.res = "Ok"
    /\ last.e \notin cleared
    /\ cleared # {} /\ despawned # {}
    /\ Cardinality(issued) >= 3

\* ------------------------------------------------------------------ C20
\* C20: despawn(e) leaves every component storage and the versions array as
\* they are: no version is incremented and no component of e is removed,
\* released or unlinked.
C20_DespawnFrame ==
    \A e \in issued :
        LET r == despawn(World, e) IN
        /\ r.w.components = components
        /\ r.w.versions = versions

\* A despawn has just returned Ok for an entity whose component is still in
\* the storage, and the slot's version is still the handle's.
C20_Witness ==
    /\ last.op = "despawn" /\ last.res = "Ok"
    /\ Holds(last.e, "Position")
    /\ DenseCount(World, "Position", last.e.index) >= 1
    /\ versions[last.e.index + 1] = last.e.version

====
